---- MODULE Spec2Model ----
(***************************************************************************)
(* A model of the order execution engine of blofin_trading.py: one         *)
(* execution of trading_workflow (set leverage, stream login and           *)
(* subscription, the two REST order legs of place_rest_order, and the      *)
(* confirmation loop of wait_for_multiple_order_confirmations), together   *)
(* with the exchange as its environment.                                   *)
(*                                                                         *)
(* Numbers.  Prices, sizes and increments are whole numbers here.          *)
(* round_to_multiple ends in round(., 8); on a product of two whole        *)
(* numbers that step changes nothing, so it does not appear.  A quotient   *)
(* such as value / multiple is kept as the pair numerator, denominator     *)
(* and rounded by RoundHalfEven, which is Python's round() on that         *)
(* quotient.                                                               *)
(*                                                                         *)
(* Time.  The clock `now` counts ticks of 1/TicksPerSecond second from     *)
(* the moment tracking begins.  The loop of the tracker takes no time;     *)
(* time passes only while a read of the stream is pending.                 *)
(***************************************************************************)
EXTENDS Integers, Sequences, FiniteSets, TLC

VARIABLES
    signal,       \* the signal dict handed to trading_workflow
    instrument,   \* the exchange's catalog entry: tickSize, lotSize, contractValue
    env,          \* ORDER_USD_AMOUNT and LEVERAGE of the environment
    pc,           \* position of the execution in trading_workflow
    rest,         \* the REST requests sent so far, each with the response it got
    ws,           \* the stream connection: "none", "open", "closed"
    wsSent,       \* frames the execution sent on the stream, in order
    loginReply,   \* the reply read after the login frame
    buffer,       \* frames delivered to the connection and not read yet
    order,        \* locals of place_rest_order: side, entry_price, sizes
    order_ids,    \* the list place_rest_order returns
    remaining,    \* wait_for_multiple_order_confirmations: ids not matched yet
    found,        \* wait_for_multiple_order_confirmations: id -> first payload
    deadline,     \* tick at which the tracker's deadline falls
    now,          \* the event loop's clock, in ticks
    waitStart,    \* tick at which the pending asyncio.wait_for began
    per_wait,     \* timeout of the pending asyncio.wait_for, in ticks
    confirm,      \* how wait_for_multiple_order_confirmations ended
    outcome,      \* how trading_workflow ended
    delivered,    \* history: own ids the exchange sent an update for before the deadline
    firstSeen,    \* history: id -> first update entry listen_one consumed for it
    repeated,     \* history: ids for which listen_one consumed a later update
    xpc,          \* concurrent executions: execution -> its position in trading_workflow
    clock_ms,     \* concurrent executions: int(time.time() * 1000)
    signed,       \* concurrent executions: the signed REST requests, each with its nonce
    conn,         \* concurrent executions: execution -> the connection its ws names
    opened,       \* concurrent executions: connections websockets.connect has opened
    reads,        \* concurrent executions: the ws.recv() calls that are pending
    cancelled,    \* concurrent executions: those whose listen_one was cancelled
    poll_pc,      \* poll_twitter: its position in the cycle
    utc,          \* poll_twitter: datetime.now(timezone.utc), in seconds
    poll_now,     \* poll_twitter: the cycle's snapshot `now`
    last_checked, \* poll_twitter: last_checked
    tweets,       \* poll_twitter: the target user's tweets, each with id and created_at
    launched,     \* poll_twitter: tweet id -> create_task(trading_workflow) calls for it
    cycles        \* poll_twitter: poll cycles completed

vars == << signal, instrument, env, pc, rest, ws, wsSent, loginReply, buffer,
           order, order_ids, remaining, found, deadline, now, waitStart,
           per_wait, confirm, outcome, delivered, firstSeen, repeated,
           xpc, clock_ms, signed, conn, opened, reads, cancelled,
           poll_pc, utc, poll_now, last_checked, tweets, launched, cycles >>

----------------------------------------------------------------------------
(* Bounds of the model and constants of the program *)

\* ticks of the clock per second
TicksPerSecond == 2
\* frames the connection buffers before the tracker starts to read
MaxQueue == 1
\* entries in the data list of one update frame
MaxData == 2
\* largest entry price and largest user budget of the sizing specification
MaxPrice == 6
MaxBudget == 6
\* default of wait_for_multiple_order_confirmations' timeout parameter, seconds
DefaultTimeout == 10
\* cap of one asyncio.wait_for in the tracker's loop, seconds
PerWaitCap == 1
\* milliseconds the clock may advance by itself between two sleeps
MaxClockMs == 1
\* asyncio.sleep(1) after the login, in milliseconds
SleepMs == 1000
\* tweets the target user posts, poll cycles, and seconds one search may take
MaxTweets == 2
MaxCycles == 2
MaxSearchSeconds == 1
\* asyncio.sleep(600) between two polls, and the first look-back of 10 minutes
PollSeconds == 600
LookbackSeconds == 600

Min(a, b) == IF a <= b THEN a ELSE b
Abs(a) == IF a < 0 THEN 0 - a ELSE a

----------------------------------------------------------------------------
(* Quantization *)

\* n / d rounded to the nearest integer, a tie going away from zero
RoundHalfAwayFromZero(n, d) ==
    LET q == n \div d
        r == n % d
    IN  IF 2 * r < d THEN q
        ELSE IF 2 * r > d THEN q + 1
        ELSE IF n >= 0 THEN q + 1 ELSE q

\* Python's round(n / d) for d > 0: nearest integer, a tie going to the even one.
RoundHalfEven(n, d) ==
    LET q == n \div d
        r == n % d
    IN  IF 2 * r < d THEN q
        ELSE IF 2 * r > d THEN q + 1
        ELSE IF q % 2 = 0 THEN q ELSE q + 1

\* a slip: the rounded count of multiples is not scaled back by the multiple
round_to_multiple_unscaled(num, den, multiple) ==
    RoundHalfEven(num, den * multiple)

\* round_to_multiple(num / den, multiple)
round_to_multiple(num, den, multiple) ==
    RoundHalfEven(num, den * multiple) * multiple

----------------------------------------------------------------------------
(* place_rest_order: validation and sizing *)

RECURSIVE SeqMax(_), SeqMin(_)
SeqMax(s) ==
    IF Len(s) = 1 THEN s[1]
    ELSE LET m == SeqMax(Tail(s)) IN IF s[1] >= m THEN s[1] ELSE m
SeqMin(s) ==
    IF Len(s) = 1 THEN s[1]
    ELSE LET m == SeqMin(Tail(s)) IN IF s[1] <= m THEN s[1] ELSE m

\* The message of the exception the checks of the signal raise, "" when they pass.
\* stoploss is a list of at most one element: <<>> is None.
SignalError(sig) ==
    IF sig.entry = <<>> THEN "No entry prices in signal."
    ELSE IF sig.trade_type \notin {"LONG", "SHORT"} THEN "Invalid trade type in signal."
    ELSE IF sig.targets = <<>> THEN "No target prices in signal."
    ELSE IF sig.stoploss = <<>> THEN "No stop loss provided in signal."
    ELSE ""

Side(sig) == IF sig.trade_type = "LONG" THEN "buy" ELSE "sell"

\* a slip: the first listed entry is taken whatever the direction
RawEntryPriceFirst(sig) == sig.entry[1]

\* entry price before quantization: highest entry for LONG, lowest for SHORT
RawEntryPrice(sig) ==
    IF sig.trade_type = "LONG" THEN SeqMax(sig.entry) ELSE SeqMin(sig.entry)

QuantizedEntryPrice(sig, inst) ==
    round_to_multiple(RawEntryPrice(sig), 1, inst.tickSize)

Notional(e) == e.ORDER_USD_AMOUNT * e.LEVERAGE

CostPerContract(sig, inst) == QuantizedEntryPrice(sig, inst) * inst.contractValue

\* order_size: notional / cost_per_contract rounded to the lot size
OrderSize(sig, inst, e) ==
    round_to_multiple(Notional(e), CostPerContract(sig, inst), inst.lotSize)

\* half_size, with the collapse to the full size when the half rounds to nothing
HalfSize(order_size, lotSize) ==
    LET h == round_to_multiple(order_size, 2, lotSize)
    IN  IF h <= 0 THEN order_size ELSE h

\* a slip: the second leg is sized as a second half, not as the remainder
RemainingSizeHalfAgain(order_size, half_size, lotSize) ==
    LET r == round_to_multiple(order_size, 2, lotSize)
    IN  IF r < 0 THEN 0 ELSE r

RemainingSize(order_size, half_size, lotSize) ==
    LET r == round_to_multiple(order_size - half_size, 1, lotSize)
    IN  IF r < 0 THEN 0 ELSE r

NoOrder ==
    [side |-> "", entry_price |-> 0, order_size |-> 0, half_size |-> 0,
     remaining_size |-> 0, take_profit |-> 0, stoploss |-> 0]

\* the locals of place_rest_order once the sizes are computed
ComputeOrder(sig, inst, e) ==
    LET total == OrderSize(sig, inst, e)
        half  == HalfSize(total, inst.lotSize)
    IN  [side |-> Side(sig),
         entry_price |-> QuantizedEntryPrice(sig, inst),
         order_size |-> total,
         half_size |-> half,
         remaining_size |-> RemainingSize(total, half, inst.lotSize),
         take_profit |-> sig.targets[1],
         stoploss |-> sig.stoploss[1]]

----------------------------------------------------------------------------
(* Outcomes *)

Running == [kind |-> "running", exc |-> "", msg |-> "", ids |-> {}]
Returned == [kind |-> "returned", exc |-> "", msg |-> "", ids |-> {}]
\* an exception leaving trading_workflow; ids: the order ids its text carries
Raised(exc, msg) == [kind |-> "raised", exc |-> exc, msg |-> msg, ids |-> {}]

----------------------------------------------------------------------------
(* REST requests *)

LeverageRequest(resp) ==
    [ep |-> "set-leverage", leg |-> "", side |-> "", price |-> 0, size |-> 0,
     sl |-> 0, tp |-> <<>>, resp |-> resp]

InstrumentsRequest(resp) ==
    [ep |-> "instruments", leg |-> "", side |-> "", price |-> 0, size |-> 0,
     sl |-> 0, tp |-> <<>>, resp |-> resp]

\* order_request_with_tp
LegARequest(o, resp) ==
    [ep |-> "order", leg |-> "A", side |-> o.side, price |-> o.entry_price,
     size |-> o.half_size, sl |-> o.stoploss, tp |-> << o.take_profit >>,
     resp |-> resp]

\* a slip: leg B is built from leg A's payload with the take-profit left in
LegBRequestWithTp(o, resp) ==
    [ep |-> "order", leg |-> "B", side |-> o.side, price |-> o.entry_price,
     size |-> o.remaining_size, sl |-> o.stoploss, tp |-> << o.take_profit >>,
     resp |-> resp]

\* order_request_sl_only
LegBRequest(o, resp) ==
    [ep |-> "order", leg |-> "B", side |-> o.side, price |-> o.entry_price,
     size |-> o.remaining_size, sl |-> o.stoploss, tp |-> <<>>, resp |-> resp]

\* what the exchange may answer
LeverageResponses == {"ok", "http_error", "rejected"}
InstrumentResponses == {"ok", "http_error", "empty"}
OrderResponses ==
    {"ok", "http_error", "rejected", "no_data", "empty_data", "no_orderId"}

\* the exchange holds the order when it answered with a success code
ExchangeAccepted(resp) == resp \notin {"http_error", "rejected"}

\* a slip: the response's code is not looked at
SetLeverageFailsHttpOnly(resp) == resp = "http_error"

\* set_leverage raises: raise_for_status, or a code other than "0"
SetLeverageFails(resp) == resp \in {"http_error", "rejected"}

\* a slip: leg A's response code is not looked at
LegAErrorNoCodeCheck(resp) ==
    IF resp = "http_error" THEN "HTTPError"
    ELSE IF resp = "no_data" THEN "No data in order response (leg A)"
    ELSE ""

\* the exception place_rest_order raises on leg A's response, "" when it goes on
LegAError(resp) ==
    IF resp = "http_error" THEN "HTTPError"
    ELSE IF resp = "rejected" THEN "Order API error (leg A)"
    ELSE IF resp = "no_data" THEN "No data in order response (leg A)"
    ELSE ""

\* the exception place_rest_order raises on leg B's response, "" when it goes on
LegBError(resp) ==
    IF resp = "http_error" THEN "HTTPError"
    ELSE IF resp = "rejected" THEN "Order API error (leg B)"
    ELSE ""

\* the exception of a failed order submission as it leaves trading_workflow
OrderFailure(msg) ==
    IF msg = "HTTPError" THEN Raised("HTTPError", "POST /api/v1/trade/order")
    ELSE Raised("Exception", msg)

\* order_response["data"][0]["orderId"]: the exception it raises, "" when it reads an id
OrderIdError(resp) ==
    IF resp = "no_data" THEN "KeyError"
    ELSE IF resp = "empty_data" THEN "IndexError"
    ELSE IF resp = "no_orderId" THEN "KeyError"
    ELSE ""

\* the ids the exchange gives the two legs
IdOfLeg(leg) == IF leg = "A" THEN "a" ELSE "b"

Requests(ep) == { i \in 1..Len(rest) : rest[i].ep = ep }
LegRequests(leg) == { i \in 1..Len(rest) : rest[i].ep = "order" /\ rest[i].leg = leg }

----------------------------------------------------------------------------
(* Stream frames *)

\* ids seen on the stream: the two legs' and one of another execution
AllIds == {"a", "b", "x"}

NoEntry == [orderId |-> "", state |-> ""]

\* the entries of update frames: two payloads for "a", so that a first and a
\* later update of one order differ
UpdateEntries ==
    { [orderId |-> "a", state |-> "live"], [orderId |-> "a", state |-> "filled"],
      [orderId |-> "b", state |-> "live"], [orderId |-> "x", state |-> "live"] }

\* the exchange sends updates only for orders it holds
EmittableEntries ==
    { e \in UpdateEntries :
        \/ e.orderId = "x"
        \/ \E i \in 1..Len(rest) :
              /\ rest[i].ep = "order"
              /\ IdOfLeg(rest[i].leg) = e.orderId
              /\ ExchangeAccepted(rest[i].resp) }

\* frames the exchange may send now: a frame that is no update, or an update
\* with a data list of at most MaxData entries
EmittableFrames ==
    { [action |-> "pong", data |-> <<>>] } \cup
    { [action |-> "update", data |-> d] :
        d \in UNION { [1..n -> EmittableEntries] : n \in 0..MaxData } }

\* own ids an update frame carries
IdsIn(frame) ==
    IF frame.action = "update"
    THEN { frame.data[i].orderId : i \in 1..Len(frame.data) } \cap {"a", "b"}
    ELSE {}

----------------------------------------------------------------------------
(* wait_for_multiple_order_confirmations *)

NoneFound == [k \in AllIds |-> NoEntry]
Keys(f) == { k \in AllIds : f[k] # NoEntry }
SetOf(s) == { s[i] : i \in 1..Len(s) }

\* a slip: the matched id is not discarded from remaining
MatchOrderNoDiscard(entry, st) ==
    IF entry.orderId \in st.remaining
    THEN [remaining |-> st.remaining,
          found |-> [st.found EXCEPT ![entry.orderId] = entry]]
    ELSE st

\* a slip: a later update of a matched id replaces its payload
MatchOrderLastWins(entry, st) ==
    IF entry.orderId \in st.remaining \/ st.found[entry.orderId] # NoEntry
    THEN [remaining |-> st.remaining \ {entry.orderId},
          found |-> [st.found EXCEPT ![entry.orderId] = entry]]
    ELSE st

\* a slip: the entry is recorded without asking whether its id is awaited
MatchOrderAnyId(entry, st) ==
    [remaining |-> st.remaining \ {entry.orderId},
     found |-> [st.found EXCEPT ![entry.orderId] = entry]]

\* the body of listen_one's for loop for one entry; st is [remaining, found]
MatchOrder(entry, st) ==
    IF entry.orderId \in st.remaining
    THEN [remaining |-> st.remaining \ {entry.orderId},
          found |-> [st.found EXCEPT ![entry.orderId] = entry]]
    ELSE st

\* listen_one's for loop over data.get("data", [])
RECURSIVE MatchAll(_, _)
MatchAll(data, st) ==
    IF data = <<>> THEN st
    ELSE MatchAll(Tail(data), MatchOrder(Head(data), st))

\* listen_one on one frame
listen_one(frame, st) ==
    IF frame.action = "update" THEN MatchAll(frame.data, st) ELSE st

\* time_left and per_wait of one turn of the loop
\* a slip: every read gets the full cap, whatever time is left
PerWaitUncapped(time_left) == PerWaitCap * TicksPerSecond

TimeLeft == deadline - now
PerWait(time_left) == Min(PerWaitCap * TicksPerSecond, time_left)

Pending == [kind |-> "pending", found |-> NoneFound, missing |-> {}]
AllConfirmed(f) == [kind |-> "found", found |-> f, missing |-> {}]
TimedOut(rem) == [kind |-> "timeout", found |-> NoneFound, missing |-> rem]

\* history of what listen_one consumed, kept beside the tracker's own state
RECURSIVE FirstIndex(_, _, _)
FirstIndex(data, id, i) ==
    IF i > Len(data) THEN 0
    ELSE IF data[i].orderId = id THEN i
    ELSE FirstIndex(data, id, i + 1)

FirstSeenAfter(frame, seen) ==
    [k \in AllIds |->
        IF seen[k] # NoEntry \/ frame.action # "update" THEN seen[k]
        ELSE LET i == FirstIndex(frame.data, k, 1)
             IN  IF i = 0 THEN NoEntry ELSE frame.data[i]]

\* own ids for which the frame carries an entry other than the first one
\* consumed for that id
RepeatedAfter(frame, seen) ==
    IF frame.action # "update" THEN {}
    ELSE LET first == FirstSeenAfter(frame, seen)
         IN  { k \in {"a", "b"} :
                 \E i \in 1..Len(frame.data) :
                    frame.data[i].orderId = k /\ frame.data[i] # first[k] }

Consumed == { k \in AllIds : firstSeen[k] # NoEntry }

----------------------------------------------------------------------------
(* Inputs *)

Signal(tt, en, tg, sl) ==
    [ticker |-> "SOL", trade_type |-> tt, entry |-> en, targets |-> tg,
     stoploss |-> sl]

\* what the environment configures: budgets that size to no lot, to one lot
\* and to several
SmallBudget == [ORDER_USD_AMOUNT |-> 2, LEVERAGE |-> 1]
OneLotBudget == [ORDER_USD_AMOUNT |-> 6, LEVERAGE |-> 1]
LargeBudget == [ORDER_USD_AMOUNT |-> 8, LEVERAGE |-> 5]

TheInstrument == [tickSize |-> 4, lotSize |-> 1, contractValue |-> 1]

Input(sig, e) == [signal |-> sig, instrument |-> TheInstrument, env |-> e]

\* the inputs of the workflow specification: well-formed signals, and one
\* signal for each way place_rest_order rejects a signal
WorkflowInputs ==
    { Input(Signal("LONG", <<4, 6>>, <<9, 12>>, <<2>>), e) :
        e \in {SmallBudget, OneLotBudget, LargeBudget} }
    \cup
    { Input(Signal("SHORT", <<6, 4>>, <<3, 1>>, <<8>>), LargeBudget),
      Input(Signal("LONG", <<>>, <<9>>, <<2>>), OneLotBudget),
      Input(Signal("LONG", <<4>>, <<>>, <<2>>), OneLotBudget),
      Input(Signal("LONG", <<4>>, <<9>>, <<>>), OneLotBudget),
      Input(Signal("HOLD", <<4>>, <<9>>, <<2>>), OneLotBudget) }

\* the inputs of the sizing specification
SizerSignals ==
    { Signal(tt, <<p, q>>, <<9, 12>>, <<2>>) :
        tt \in {"LONG", "SHORT"}, p \in 1..MaxPrice, q \in {3} }

SizerInstruments ==
    [tickSize : {1, 2}, lotSize : {1, 2, 3}, contractValue : {1, 2}]

SizerEnvs == [ORDER_USD_AMOUNT : 1..MaxBudget, LEVERAGE : {1, 5}]

SizerInputs ==
    { [signal |-> sig, instrument |-> inst, env |-> e] :
        sig \in SizerSignals, inst \in SizerInstruments, e \in SizerEnvs }

\* the executions that run side by side: one launched by each poller
Executions == {"telegram", "twitter"}

InitWith(inputs, start) ==
    /\ \E input \in inputs :
          /\ signal = input.signal
          /\ instrument = input.instrument
          /\ env = input.env
    /\ pc = start
    /\ rest = <<>>
    /\ ws = "none"
    /\ wsSent = <<>>
    /\ loginReply = ""
    /\ buffer = <<>>
    /\ order = NoOrder
    /\ order_ids = <<>>
    /\ remaining = {}
    /\ found = NoneFound
    /\ deadline = 0
    /\ now = 0
    /\ waitStart = 0
    /\ per_wait = 0
    /\ confirm = Pending
    /\ outcome = Running
    /\ delivered = {}
    /\ firstSeen = NoneFound
    /\ repeated = {}
    /\ xpc = [e \in Executions |-> "set_leverage"]
    /\ clock_ms = 0
    /\ signed = {}
    /\ conn = [e \in Executions |-> 0]
    /\ opened = 0
    /\ reads = {}
    /\ cancelled = {}
    /\ poll_pc = "snapshot"
    /\ utc = LookbackSeconds
    /\ poll_now = 0
    /\ last_checked = utc - LookbackSeconds
    /\ tweets = {}
    /\ launched = [t \in 1..MaxTweets |-> 0]
    /\ cycles = 0

Init == InitWith(WorkflowInputs, "set_leverage")

InitSizer == InitWith(SizerInputs, "size")

----------------------------------------------------------------------------
(* trading_workflow *)

trackerVars == << order_ids, remaining, found, deadline, waitStart, per_wait,
                  confirm >>
historyVars == << delivered, firstSeen, repeated >>
inputVars == << signal, instrument, env >>
concurrentVars == << xpc, clock_ms, signed, conn, opened, reads, cancelled >>
pollerVars == << poll_pc, utc, poll_now, last_checked, tweets, launched, cycles >>
workflowVars == << pc, rest, ws, wsSent, loginReply, buffer, order, now, outcome,
                   trackerVars, historyVars >>

\* an exception leaves trading_workflow: nothing after the raise runs
Fail(out) ==
    /\ pc' = "done"
    /\ outcome' = out

\* step 1: set_leverage(instId)
SetLeverage ==
    /\ pc = "set_leverage"
    /\ \E resp \in LeverageResponses :
          /\ rest' = Append(rest, LeverageRequest(resp))
          /\ IF SetLeverageFails(resp)
             THEN Fail(Raised("Exception", "Set leverage failed:"))
             ELSE pc' = "connect" /\ outcome' = outcome
    /\ UNCHANGED << inputVars, pollerVars, concurrentVars, ws, wsSent, loginReply, buffer, order, now,
                    trackerVars, historyVars >>

\* step 2: websockets.connect(WS_URL)
Connect ==
    /\ pc = "connect"
    /\ \E ok \in BOOLEAN :
          IF ok
          THEN ws' = "open" /\ pc' = "login" /\ outcome' = outcome
          ELSE ws' = ws /\ Fail(Raised("OSError", "connect"))
    /\ UNCHANGED << inputVars, pollerVars, concurrentVars, rest, wsSent, loginReply, buffer, order, now,
                    trackerVars, historyVars >>

\* sign_and_login: the login frame is sent and one reply is read, whatever it says
SignAndLogin ==
    /\ pc = "login"
    /\ wsSent' = Append(wsSent, "login")
    /\ \E reply \in {"success", "error"} : loginReply' = reply
    /\ pc' = "subscribe"
    /\ UNCHANGED << inputVars, pollerVars, concurrentVars, rest, ws, buffer, order, now, outcome,
                    trackerVars, historyVars >>

\* step 3: the subscribe frame is sent and one reply is read
Subscribe ==
    /\ pc = "subscribe"
    /\ wsSent' = Append(wsSent, "subscribe")
    /\ pc' = "place"
    /\ UNCHANGED << inputVars, pollerVars, concurrentVars, rest, ws, loginReply, buffer, order, now,
                    outcome, trackerVars, historyVars >>

\* step 4, place_rest_order up to its first request: the checks of the
\* signal, then get_instrument_details
GetInstrumentDetails ==
    /\ pc = "place"
    /\ IF SignalError(signal) # ""
       THEN /\ Fail(Raised("Exception", SignalError(signal)))
            /\ rest' = rest
       ELSE \E resp \in InstrumentResponses :
               /\ rest' = Append(rest, InstrumentsRequest(resp))
               /\ IF resp = "ok"
                  THEN pc' = "leg_a" /\ outcome' = outcome
                  ELSE Fail(Raised(IF resp = "empty" THEN "Exception" ELSE "HTTPError",
                                   "No instrument data"))
    /\ UNCHANGED << inputVars, pollerVars, concurrentVars, ws, wsSent, loginReply, buffer, order, now,
                    trackerVars, historyVars >>

\* one turn of the tracker's while loop, up to the read it starts
LoopTurn(rem, fnd, dl) ==
    IF rem = {}
    THEN /\ confirm' = AllConfirmed(fnd)
         /\ pc' = "close"
         /\ UNCHANGED << waitStart, per_wait >>
    ELSE IF dl - now <= 0
    THEN /\ confirm' = TimedOut(rem)
         /\ pc' = "close"
         /\ UNCHANGED << waitStart, per_wait >>
    ELSE /\ confirm' = confirm
         /\ pc' = "recv"
         /\ waitStart' = now
         /\ per_wait' = PerWait(dl - now)

\* the end of place_rest_order and the start of
\* wait_for_multiple_order_confirmations: the order ids are read from the
\* responses, remaining/found/deadline are set and the loop starts
ReturnAndTrack(o, respA, respB) ==
    LET ea == OrderIdError(respA)
        eb == IF o.remaining_size > 0 THEN OrderIdError(respB) ELSE ""
        ids == IF o.remaining_size > 0 THEN <<"a", "b">> ELSE <<"a">>
    IN  IF ea # "" \/ eb # ""
        THEN /\ Fail(Raised(IF ea # "" THEN ea ELSE eb, "orderId"))
             /\ UNCHANGED trackerVars
        ELSE /\ order_ids' = ids
             /\ remaining' = SetOf(ids)
             /\ found' = NoneFound
             /\ deadline' = now + DefaultTimeout * TicksPerSecond
             /\ outcome' = outcome
             /\ LoopTurn(SetOf(ids), NoneFound, now + DefaultTimeout * TicksPerSecond)

\* place_rest_order: sizes, then leg A is signed and sent
SubmitLegA ==
    /\ pc = "leg_a"
    /\ IF CostPerContract(signal, instrument) = 0
       THEN /\ Fail(Raised("ZeroDivisionError", "division by zero"))
            /\ UNCHANGED << rest, order, trackerVars >>
       ELSE LET o == ComputeOrder(signal, instrument, env)
            IN  \E resp \in OrderResponses :
                   /\ order' = o
                   /\ rest' = Append(rest, LegARequest(o, resp))
                   /\ IF LegAError(resp) # ""
                      THEN Fail(OrderFailure(LegAError(resp))) /\ UNCHANGED trackerVars
                      ELSE IF o.remaining_size > 0
                      THEN pc' = "leg_b" /\ outcome' = outcome /\ UNCHANGED trackerVars
                      ELSE ReturnAndTrack(o, resp, resp)
    /\ UNCHANGED << inputVars, pollerVars, concurrentVars, ws, wsSent, loginReply, buffer, now, historyVars >>

\* place_rest_order: leg B is signed and sent
SubmitLegB ==
    /\ pc = "leg_b"
    /\ \E resp \in OrderResponses :
          /\ rest' = Append(rest, LegBRequest(order, resp))
          /\ IF LegBError(resp) # ""
             THEN Fail(OrderFailure(LegBError(resp))) /\ UNCHANGED trackerVars
             ELSE ReturnAndTrack(order, rest[Len(rest)].resp, resp)
    /\ UNCHANGED << inputVars, pollerVars, concurrentVars, ws, wsSent, loginReply, buffer, order, now,
                    historyVars >>

\* the exchange pushes a frame while the execution is not reading: it waits
\* in the connection
Deliver ==
    /\ ws = "open"
    /\ pc \in {"place", "leg_a", "leg_b"}
    /\ Len(buffer) < MaxQueue
    /\ \E frame \in EmittableFrames :
          /\ buffer' = Append(buffer, frame)
          /\ delivered' = delivered \cup IdsIn(frame)
    /\ UNCHANGED << inputVars, pollerVars, concurrentVars, pc, rest, ws, wsSent, loginReply, order, now,
                    outcome, trackerVars, firstSeen, repeated >>

\* a frame reaches listen_one (the oldest waiting one, or one that arrives
\* while the read is pending), and the loop takes its next turn
ReadableFrames == IF buffer # <<>> THEN {Head(buffer)} ELSE EmittableFrames

\* ws.recv() in listen_one returns frame
Receive(frame) ==
    /\ pc = "recv"
    /\ frame \in ReadableFrames
    /\ LET st == listen_one(frame, [remaining |-> remaining, found |-> found])
       IN  /\ remaining' = st.remaining
           /\ found' = st.found
           /\ buffer' = IF buffer # <<>> THEN Tail(buffer) ELSE buffer
           /\ delivered' = IF buffer = <<>> /\ now < deadline
                           THEN delivered \cup IdsIn(frame) ELSE delivered
           /\ firstSeen' = FirstSeenAfter(frame, firstSeen)
           /\ repeated' = repeated \cup RepeatedAfter(frame, firstSeen)
           /\ LoopTurn(st.remaining, st.found, deadline)
    /\ UNCHANGED << inputVars, pollerVars, concurrentVars, rest, ws, wsSent, loginReply, order, order_ids,
                    deadline, now, outcome >>

ListenOne == \E frame \in ReadableFrames : Receive(frame)

\* asyncio.wait_for gives up on listen_one: the TimeoutError leaves the loop
\* and is caught by the except clause
PerWaitTimeout ==
    /\ pc = "recv"
    /\ buffer = <<>>
    /\ now - waitStart >= per_wait
    /\ confirm' = TimedOut(remaining)
    /\ pc' = "close"
    /\ UNCHANGED << inputVars, pollerVars, concurrentVars, rest, ws, wsSent, loginReply, buffer, order,
                    order_ids, remaining, found, deadline, now, waitStart,
                    per_wait, outcome, historyVars >>

\* time passes while the read is pending and nothing arrives
Tick ==
    /\ pc = "recv"
    /\ buffer = <<>>
    /\ now - waitStart < per_wait
    /\ now' = now + 1
    /\ UNCHANGED << inputVars, pollerVars, concurrentVars, pc, rest, ws, wsSent, loginReply, buffer, order,
                    outcome, trackerVars, historyVars >>

\* the exchange pushes an update after the tracker has ended and before the
\* deadline: nothing reads it any more
DeliverAfterWait ==
    /\ pc = "close"
    /\ ws = "open"
    /\ now < deadline
    /\ \E frame \in EmittableFrames :
          /\ IdsIn(frame) \ delivered # {}
          /\ delivered' = delivered \cup IdsIn(frame)
    /\ UNCHANGED << inputVars, pollerVars, concurrentVars, pc, rest, ws, wsSent, loginReply, buffer, order,
                    now, outcome, trackerVars, firstSeen, repeated >>

\* step 5's report and the clean-up: ws.close(), and trading_workflow returns
Close ==
    /\ pc = "close"
    /\ ws' = "closed"
    /\ pc' = "done"
    /\ outcome' = Returned
    /\ UNCHANGED << inputVars, pollerVars, concurrentVars, rest, wsSent, loginReply, buffer, order, now,
                    trackerVars, historyVars >>

Next ==
    \/ SetLeverage
    \/ Connect
    \/ SignAndLogin
    \/ Subscribe
    \/ GetInstrumentDetails
    \/ SubmitLegA
    \/ SubmitLegB
    \/ Deliver
    \/ ListenOne
    \/ PerWaitTimeout
    \/ Tick
    \/ DeliverAfterWait
    \/ Close

Spec == Init /\ [][Next]_vars

----------------------------------------------------------------------------
(* The sizing of place_rest_order on its own *)

SizeLegs ==
    /\ pc = "size"
    /\ IF CostPerContract(signal, instrument) = 0
       THEN Fail(Raised("ZeroDivisionError", "division by zero")) /\ order' = order
       ELSE /\ order' = ComputeOrder(signal, instrument, env)
            /\ pc' = "sized"
            /\ outcome' = outcome
    /\ UNCHANGED << inputVars, pollerVars, concurrentVars, rest, ws, wsSent, loginReply, buffer, now,
                    trackerVars, historyVars >>

NextSizer == SizeLegs

SpecSizer == InitSizer /\ [][NextSizer]_vars

----------------------------------------------------------------------------
(* Two executions of trading_workflow side by side: what they sign and what
   they read.  Every request and every reply succeeds unless the execution
   is ended by Raise or ReadFails. *)

\* the input of the concurrent executions: signals that pass the checks
ConcurrentInputs == { i \in WorkflowInputs : SignalError(i.signal) = "" }

InitConcurrent == InitWith(ConcurrentInputs, "concurrent")

\* nonce = timestamp = str(int(time.time() * 1000))
Nonce(ms) == ms

\* a slip: connections are pooled, connect hands out the one connection
PooledConnection(n) == 1

\* websockets.connect(WS_URL): the n-th connection opened
NewConnection(n) == n

Sign(e, req) == signed' = signed \cup { [by |-> e, req |-> req, nonce |-> Nonce(clock_ms)] }

StartRead(e, site) == reads' = reads \cup { [by |-> e, on |-> conn[e], site |-> site] }
EndRead(e) == reads' = { r \in reads : r.by # e }

Goto(e, pos) == xpc' = [xpc EXCEPT ![e] = pos]

\* set_leverage signs its request with the clock's reading
SignSetLeverage(e) ==
    /\ xpc[e] = "set_leverage"
    /\ Sign(e, "set-leverage")
    /\ Goto(e, "connect")
    /\ UNCHANGED << inputVars, pollerVars, workflowVars, clock_ms, conn, opened, reads, cancelled >>

OpenConnection(e) ==
    /\ xpc[e] = "connect"
    /\ opened' = opened + 1
    /\ conn' = [conn EXCEPT ![e] = NewConnection(opened + 1)]
    /\ Goto(e, "login")
    /\ UNCHANGED << inputVars, pollerVars, workflowVars, clock_ms, signed, reads, cancelled >>

\* ws.send(...) followed by await ws.recv(): in sign_and_login and after the
\* subscribe frame
SendAndRead(e) ==
    /\ xpc[e] \in {"login", "subscribe"}
    /\ StartRead(e, xpc[e])
    /\ Goto(e, IF xpc[e] = "login" THEN "login_recv" ELSE "subscribe_recv")
    /\ UNCHANGED << inputVars, pollerVars, workflowVars, clock_ms, signed, conn, opened, cancelled >>

\* the reply arrives and ws.recv() returns
ReplyRead(e) ==
    /\ xpc[e] \in {"login_recv", "subscribe_recv"}
    /\ EndRead(e)
    /\ Goto(e, IF xpc[e] = "login_recv" THEN "sleep" ELSE "leg_a")
    /\ UNCHANGED << inputVars, pollerVars, workflowVars, clock_ms, signed, conn, opened, cancelled >>

\* asyncio.sleep(1)
Sleep(e) ==
    /\ xpc[e] = "sleep"
    /\ clock_ms' = clock_ms + SleepMs
    /\ Goto(e, "subscribe")
    /\ UNCHANGED << inputVars, pollerVars, workflowVars, signed, conn, opened, reads, cancelled >>

\* place_rest_order signs leg A with the clock's reading
SignLegA(e) ==
    /\ xpc[e] = "leg_a"
    /\ Sign(e, "A")
    /\ Goto(e, IF ComputeOrder(signal, instrument, env).remaining_size > 0
               THEN "leg_b" ELSE "loop")
    /\ UNCHANGED << inputVars, pollerVars, workflowVars, clock_ms, conn, opened, reads, cancelled >>

\* place_rest_order signs leg B with the clock's reading
SignLegB(e) ==
    /\ xpc[e] = "leg_b"
    /\ Sign(e, "B")
    /\ Goto(e, "loop")
    /\ UNCHANGED << inputVars, pollerVars, workflowVars, clock_ms, conn, opened, reads, cancelled >>

\* a turn of the tracker's loop: it ends, or asyncio.wait_for(listen_one())
\* starts a read
LoopRead(e) ==
    /\ xpc[e] = "loop"
    /\ \/ Goto(e, "close") /\ reads' = reads
       \/ Goto(e, "loop_recv") /\ StartRead(e, "listen_one")
    /\ UNCHANGED << inputVars, pollerVars, workflowVars, clock_ms, signed, conn, opened, cancelled >>

\* a frame arrives, listen_one returns and the loop takes its next turn
FrameRead(e) ==
    /\ xpc[e] = "loop_recv"
    /\ EndRead(e)
    /\ Goto(e, "loop")
    /\ UNCHANGED << inputVars, pollerVars, workflowVars, clock_ms, signed, conn, opened, cancelled >>

\* asyncio.wait_for cancels listen_one and raises TimeoutError, which leaves
\* the loop
CancelRead(e) ==
    /\ xpc[e] = "loop_recv"
    /\ EndRead(e)
    /\ cancelled' = cancelled \cup {e}
    /\ Goto(e, "close")
    /\ UNCHANGED << inputVars, pollerVars, workflowVars, clock_ms, signed, conn, opened >>

\* ws.close(), and trading_workflow returns
CloseConnection(e) ==
    /\ xpc[e] = "close"
    /\ Goto(e, "done")
    /\ UNCHANGED << inputVars, pollerVars, workflowVars, clock_ms, signed, conn, opened, reads,
                    cancelled >>

\* a request or the connect raises: the execution ends where it is
Raise(e) ==
    /\ xpc[e] \in {"connect", "leg_a", "leg_b", "loop"}
    /\ Goto(e, "done")
    /\ UNCHANGED << inputVars, pollerVars, workflowVars, clock_ms, signed, conn, opened, reads,
                    cancelled >>

\* the connection drops and the pending ws.recv() raises
ReadFails(e) ==
    /\ xpc[e] \in {"login_recv", "subscribe_recv", "loop_recv"}
    /\ EndRead(e)
    /\ Goto(e, "done")
    /\ UNCHANGED << inputVars, pollerVars, workflowVars, clock_ms, signed, conn, opened, cancelled >>

\* the clock moves on by a millisecond
ClockAdvance ==
    /\ clock_ms % SleepMs < MaxClockMs
    /\ clock_ms' = clock_ms + 1
    /\ UNCHANGED << inputVars, pollerVars, workflowVars, xpc, signed, conn, opened, reads,
                    cancelled >>

NextConcurrent ==
    \/ \E e \in Executions :
          \/ SignSetLeverage(e)
          \/ OpenConnection(e)
          \/ SendAndRead(e)
          \/ ReplyRead(e)
          \/ Sleep(e)
          \/ SignLegA(e)
          \/ SignLegB(e)
          \/ LoopRead(e)
          \/ FrameRead(e)
          \/ CancelRead(e)
          \/ CloseConnection(e)
          \/ Raise(e)
          \/ ReadFails(e)
    \/ ClockAdvance

SpecConcurrent == InitConcurrent /\ [][NextConcurrent]_vars

----------------------------------------------------------------------------
(* poll_twitter: the cycles of the Twitter poller and the tweets of the
   target user.  Time is in seconds; it passes while the search is under way
   and while the poller sleeps. *)

PollerInputs == { i \in WorkflowInputs : i.signal.trade_type = "SHORT" }

InitPoller == InitWith(PollerInputs, "poller")

\* if tweet.created_at > last_checked
IsNew(tweet, since) == tweet.created_at > since

\* the target user posts a tweet; valid: parse_signal finds every field in it
TweetPosted ==
    /\ Cardinality(tweets) < MaxTweets
    /\ \E valid \in BOOLEAN :
          tweets' = tweets \cup { [id |-> Cardinality(tweets) + 1,
                                   created_at |-> utc, valid |-> valid] }
    /\ UNCHANGED << inputVars, workflowVars, concurrentVars, poll_pc, utc,
                    poll_now, last_checked, launched, cycles >>

\* now = datetime.now(timezone.utc)
SnapshotNow ==
    /\ poll_pc = "snapshot"
    /\ poll_now' = utc
    /\ poll_pc' = "search"
    /\ UNCHANGED << inputVars, workflowVars, concurrentVars, utc, last_checked,
                    tweets, launched, cycles >>

\* a second passes while search_recent_tweets is under way
SearchTakesTime ==
    /\ poll_pc = "search"
    /\ utc - poll_now < MaxSearchSeconds
    /\ utc' = utc + 1
    /\ UNCHANGED << inputVars, workflowVars, concurrentVars, poll_pc, poll_now,
                    last_checked, tweets, launched, cycles >>

\* search_recent_tweets returns the user's tweets; each valid one newer than
\* last_checked gets its trading_workflow; then last_checked = now
SearchAndProcess ==
    /\ poll_pc = "search"
    /\ launched' = [t \in 1..MaxTweets |->
                      IF \E tweet \in tweets :
                            /\ tweet.id = t
                            /\ IsNew(tweet, last_checked)
                            /\ tweet.valid
                      THEN launched[t] + 1 ELSE launched[t]]
    /\ last_checked' = poll_now
    /\ poll_pc' = "sleep"
    /\ UNCHANGED << inputVars, workflowVars, concurrentVars, utc, poll_now,
                    tweets, cycles >>

\* await asyncio.sleep(600)
SleepUntilNextPoll ==
    /\ poll_pc = "sleep"
    /\ cycles < MaxCycles
    /\ utc' = utc + PollSeconds
    /\ cycles' = cycles + 1
    /\ poll_pc' = "snapshot"
    /\ UNCHANGED << inputVars, workflowVars, concurrentVars, poll_now,
                    last_checked, tweets, launched >>

NextPoller ==
    \/ TweetPosted
    \/ SnapshotNow
    \/ SearchTakesTime
    \/ SearchAndProcess
    \/ SleepUntilNextPoll

SpecPoller == InitPoller /\ [][NextPoller]_vars

----------------------------------------------------------------------------
(* Properties *)

FailedResponses == {"http_error", "rejected"}

\* C1: when update events for all the order ids are delivered on the stream
\* before the deadline, wait_for_multiple_order_confirmations ends in success
\* with exactly those ids as keys, never in a timeout.
C1_AllDeliveredThenConfirmed ==
    (confirm.kind # "pending" /\ SetOf(order_ids) \subseteq delivered)
        => /\ confirm.kind = "found"
           /\ Keys(confirm.found) = SetOf(order_ids)

\* C2: the tracker ends in a timeout only once the deadline, DefaultTimeout
\* seconds after tracking began, has passed; silence shorter than the time
\* left does not end the wait.
C2_TimeoutOnlyAtDeadline ==
    confirm.kind = "timeout" => now >= deadline

\* C3: remaining and the keys of found are disjoint and together are the ids
\* given at the start; a timeout reports exactly the given ids for which no
\* update event was consumed.
C3_RemainingFoundPartition ==
    /\ remaining \cap Keys(found) = {}
    /\ remaining \cup Keys(found) = SetOf(order_ids)
    /\ confirm.kind = "timeout" => confirm.missing = SetOf(order_ids) \ Consumed

C3_Witness ==
    /\ confirm.kind = "timeout"
    /\ confirm.missing = {"b"}
    /\ Keys(found) = {"a"}

\* C4: an order id is matched at most once: once an update for it has been
\* consumed it is out of remaining, remaining holds exactly the ids with no
\* update consumed, and found keeps the payload of the first update however
\* many later ones arrive, in later frames or later in the same data list.
C4_FirstMatchKept ==
    \A k \in SetOf(order_ids) :
        /\ firstSeen[k] # NoEntry => found[k] = firstSeen[k]
        /\ k \in remaining <=> firstSeen[k] = NoEntry

C4_Witness ==
    /\ "a" \in repeated
    /\ found["a"] = firstSeen["a"]
    /\ found["a"] # NoEntry

\* C5: a leg B request is sent only after a leg A request whose response was
\* accepted, and after a failed leg A submission no leg B request is sent.
C5_LegBOnlyAfterLegAAccepted ==
    /\ \A i \in LegRequests("B") :
          \E j \in LegRequests("A") : j < i /\ rest[j].resp \notin FailedResponses
    /\ (\E j \in LegRequests("A") : rest[j].resp \in FailedResponses)
          => LegRequests("B") = {}

C5_Witness ==
    /\ pc = "done"
    /\ order.remaining_size > 0
    /\ \E j \in LegRequests("A") : rest[j].resp = "rejected"

\* C6: when the set-leverage call fails, trading_workflow ends with an
\* exception and no order request is sent.
C6_LeverageFailureAborts ==
    (\E i \in Requests("set-leverage") : rest[i].resp \in FailedResponses)
        => /\ Requests("order") = {}
           /\ pc = "done"
           /\ outcome.kind = "raised"

C6_Witness ==
    /\ pc = "done"
    /\ rest = << LeverageRequest("rejected") >>

\* C7: a signal with an empty entry list, an empty target list or no
\* stop-loss fails before any I/O: no REST request, no stream connection, no
\* frame sent.
C7_InvalidSignalNoIO ==
    (signal.entry = <<>> \/ signal.targets = <<>> \/ signal.stoploss = <<>>)
        => /\ rest = <<>>
           /\ ws = "none"
           /\ wsSent = <<>>

\* C8: when leg A was accepted and leg B's submission failed, the execution
\* ends in an outcome that names leg A's order id and is not the outcome of an
\* execution that placed no order.
C8_PartialOutcomeReported ==
    ( /\ pc = "done"
      /\ \E j \in LegRequests("A") : rest[j].resp \notin FailedResponses
      /\ \E i \in LegRequests("B") : rest[i].resp \in FailedResponses )
        => /\ IdOfLeg("A") \in outcome.ids
           /\ outcome \notin { OrderFailure(LegAError(r)) : r \in FailedResponses }

\* C9: every order request carries a size greater than zero.
C9_PositiveOrderSize ==
    \A i \in Requests("order") : rest[i].size > 0

\* C10: with total size T and lot size L, when both legs are emitted their
\* sum is within one lot of T, leg A is quantize(T/2, L) and leg B is
\* quantize(T - legA, L); when only leg A is emitted its size is
\* quantize(T, L).
C10_LegSplitConservation ==
    pc = "sized" =>
        LET T == order.order_size
            L == instrument.lotSize
            A == order.half_size
            B == order.remaining_size
        IN  IF B > 0
            THEN /\ Abs(A + B - T) <= L
                 /\ A = round_to_multiple(T, 2, L)
                 /\ B = round_to_multiple(T - A, 1, L)
            ELSE A = round_to_multiple(T, 1, L)

C10_Witness ==
    /\ pc = "sized"
    /\ order.remaining_size > order.half_size
    /\ order.half_size > 0

\* res is the multiple of m nearest to num / den, the even multiple when
\* num / den lies halfway between two multiples
NearestTiesToEven(num, den, m, res) ==
    /\ res % m = 0
    /\ LET k == res \div m
           twice == 2 * Abs(num - k * m * den)
       IN  /\ twice <= m * den
           /\ twice = m * den => k % 2 = 0

\* res is the multiple of m nearest to num / den, the one farther from zero
\* when num / den lies halfway between two multiples
NearestTiesAway(num, den, m, res) ==
    res = RoundHalfAwayFromZero(num, den * m) * m

C20_QuantizationIdempotent ==
    pc = "sized" =>
        /\ round_to_multiple(order.entry_price, 1, instrument.tickSize)
              = order.entry_price
        /\ round_to_multiple(order.order_size, 1, instrument.lotSize)
              = order.order_size

\* a total that the first quantization changed, with a lot size above one
C20_Witness ==
    /\ pc = "sized"
    /\ instrument.lotSize > 1
    /\ order.order_size > 0
    /\ Notional(env) # order.order_size * CostPerContract(signal, instrument)

\* success-coded order responses that lack an expected field
MalformedResponses == {"no_data", "empty_data", "no_orderId"}

\* C13: when the reply to the login frame is not a success acknowledgement,
\* the execution fails and goes no further: no subscribe frame is sent, no
\* order request is issued.
C13_LoginFailureIsFatal ==
    loginReply = "error" =>
        /\ "subscribe" \notin SetOf(wsSent)
        /\ Requests("order") = {}
        /\ pc = "done" => outcome.kind = "raised"

\* C14: a success-coded order response without 'data', with an empty 'data'
\* list or without 'orderId' fails that leg's submission at that leg: for leg
\* A no leg B request follows, for leg B the failure is reported as leg B's.
C14_MalformedFailsAtLeg ==
    /\ (\E j \in LegRequests("A") : rest[j].resp \in MalformedResponses)
          => /\ LegRequests("B") = {}
             /\ pc = "done"
             /\ outcome.kind = "raised"
    /\ (\E i \in LegRequests("B") : rest[i].resp \in MalformedResponses)
          => /\ pc = "done"
             /\ outcome.kind = "raised"
             /\ outcome.exc = "Exception"

\* C15: leg A carries slTriggerPrice = signal.stoploss and tpTriggerPrice =
\* the first element of signal.targets; leg B, when submitted, carries leg A's
\* side, price and slTriggerPrice and no tpTriggerPrice.
C15_LegTriggers ==
    /\ \A j \in LegRequests("A") :
          /\ rest[j].sl = signal.stoploss[1]
          /\ rest[j].tp = << signal.targets[1] >>
    /\ \A i \in LegRequests("B") :
          /\ rest[i].tp = <<>>
          /\ \E j \in LegRequests("A") :
                /\ j < i
                /\ rest[i].side = rest[j].side
                /\ rest[i].price = rest[j].price
                /\ rest[i].sl = rest[j].sl

\* both legs sent for a signal whose first target is not its most extreme one
C15_Witness ==
    /\ LegRequests("A") # {}
    /\ LegRequests("B") # {}
    /\ \E k \in 1..Len(signal.targets) : signal.targets[k] > signal.targets[1]

\* p is the highest (sign = 1) or the lowest (sign = -1) element of s
IsExtreme(p, s, sign) ==
    /\ p \in SetOf(s)
    /\ \A q \in SetOf(s) : sign * q <= sign * p

\* C16: with a non-empty entry list the entry price is quantized from the
\* maximum of the list with side "buy" for LONG, from the minimum with side
\* "sell" for SHORT; any other direction fails before an order is sent.
C16_EntryPriceAndSide ==
    /\ \A i \in Requests("order") :
          /\ signal.trade_type \in {"LONG", "SHORT"}
          /\ rest[i].side = (IF signal.trade_type = "LONG" THEN "buy" ELSE "sell")
          /\ \E p \in SetOf(signal.entry) :
                /\ IsExtreme(p, signal.entry,
                             IF signal.trade_type = "LONG" THEN 1 ELSE -1)
                /\ rest[i].price = round_to_multiple(p, 1, instrument.tickSize)
    /\ (signal.entry # <<>> /\ signal.trade_type \notin {"LONG", "SHORT"})
          => /\ Requests("order") = {}
             /\ pc = "done" => outcome.kind = "raised"

\* an order sent for a SHORT signal whose lowest entry is not listed first
C16_Witness ==
    /\ signal.trade_type = "SHORT"
    /\ Requests("order") # {}
    /\ \E k \in 1..Len(signal.entry) : signal.entry[k] < signal.entry[1]

\* the step consumes no update entry for an id in remaining: what listen_one
\* reads in it, if anything, is no update or is for other ids only
NothingAwaitedSeen == \A k \in remaining : firstSeen'[k] = NoEntry

\* C18: a frame whose action is not "update", or whose entries are all for
\* ids outside remaining, leaves remaining and found unchanged and does not
\* end the wait; an entry for an id outside remaining never changes found.
C18_UnrelatedFrameIgnored ==
    [][ pc = "recv" =>
           /\ \A k \in AllIds \ remaining : found'[k] = found[k]
           /\ NothingAwaitedSeen =>
                 \/ /\ remaining' = remaining
                    /\ found' = found
                    /\ now < deadline => (pc' = "recv" /\ confirm' = Pending)
                 \/ ~ListenOne
      ]_vars

\* an update for another execution's order was consumed and the wait goes on
C18_Witness ==
    /\ pc = "recv"
    /\ firstSeen["x"] # NoEntry
    /\ firstSeen["a"] = NoEntry
    /\ firstSeen["b"] = NoEntry
    /\ found = NoneFound
    /\ remaining = SetOf(order_ids)

\* C17: before the first order request the stream session is connected,
\* logged in and subscribed (subscribe frame sent, one reply read), and the
\* frames that reach the connection before tracking starts are read by the
\* tracker: none is left unread when it ends.
C17_SubscribedBeforeOrders ==
    /\ Requests("order") # {} =>
          /\ ws # "none"
          /\ wsSent = << "login", "subscribe" >>
          /\ loginReply = "success"
    /\ confirm.kind # "pending" => buffer = <<>>

\* C12: no two signed REST write requests, of one execution or of two
\* concurrent ones, carry the same nonce.
C12_UniqueNonces ==
    \A r1 \in signed : \A r2 \in signed : r1 # r2 => r1.nonce # r2.nonce

\* C19: no two reads are pending on the same connection; every pending read
\* is on the connection its execution opened, which no other execution
\* holds; an execution whose listen_one read was cancelled by the per-wait
\* timeout has no read pending afterwards.
C19_SingleReader ==
    /\ \A r1 \in reads : \A r2 \in reads : r1.on = r2.on => r1 = r2
    /\ \A r \in reads :
          /\ r.on = conn[r.by]
          /\ r.on \in 1..opened
          /\ \A e \in Executions \ {r.by} : conn[e] # r.on
    /\ \A r \in reads : r.by \notin cancelled

\* one execution's listen_one read was cancelled while the other execution
\* has a read pending in its confirmation loop, on a connection of its own
C19_Witness ==
    /\ cancelled # {}
    /\ \E r \in reads : r.site = "listen_one" /\ r.by \notin cancelled
    /\ \A e \in Executions : conn[e] # 0

C22_ConnectionClosedAtExit ==
    pc = "done" => ws # "open"

\* C23: poll_twitter launches trading_workflow at most once per tweet, over
\* any sequence of poll cycles and wherever the tweet's creation time falls
\* between a cycle's snapshot of now and the return of its search.
C23_AtMostOneLaunchPerTweet ==
    \A t \in 1..MaxTweets : launched[t] <= 1

====
